---- MODULE Spec2Model ----
(***************************************************************************)
(* Model of multithreaded_compressor.cpp: compress_file followed by        *)
(* decompress_file on the container it wrote, with one worker thread per   *)
(* chunk, codec failures, and file-system failures.                        *)
(*                                                                         *)
(* A byte buffer (vector<unsigned char>, or the bytes of a file) is kept   *)
(* run-length: a sequence of <<byte, count>> runs, count > 0, adjacent     *)
(* runs of different bytes.  Two buffers are equal iff their run           *)
(* sequences are equal.  Code indices 0..n-1 are sequence indices 1..n.    *)
(***************************************************************************)
EXTENDS Integers, Sequences, FiniteSets, TLC

\* ------------------------------------------------------------ bounds
MaxThreads == 3
MaxRuns == 2

\* ------------------------------------------------------------ constants
MAGIC == <<"M", "T", "Z", "1">>
VERSION == 1
MIN_CHUNK == 64 * 1024
Z_OK == "Z_OK"
Z_MEM_ERROR == "Z_MEM_ERROR"
Z_BUF_ERROR == "Z_BUF_ERROR"
Z_DATA_ERROR == "Z_DATA_ERROR"

Min(a, b) == IF a < b THEN a ELSE b
Max(a, b) == IF a > b THEN a ELSE b

\* ------------------------------------------------------------ byte buffers
RECURSIVE Size(_)
Size(v) == IF v = <<>> THEN 0 ELSE v[1][2] + Size(Tail(v))

Zeros(n) == IF n = 0 THEN <<>> ELSE << <<0, n>> >>

Concat(a, b) ==
    IF a = <<>> THEN b
    ELSE IF b = <<>> THEN a
    ELSE IF a[Len(a)][1] = b[1][1]
         THEN SubSeq(a, 1, Len(a) - 1)
              \o << <<b[1][1], a[Len(a)][2] + b[1][2]>> >>
              \o Tail(b)
         ELSE a \o b

RECURSIVE Take(_, _)
Take(v, n) ==
    IF n = 0 \/ v = <<>> THEN <<>>
    ELSE IF v[1][2] <= n THEN <<v[1]>> \o Take(Tail(v), n - v[1][2])
    ELSE << <<v[1][1], n>> >>

RECURSIVE Drop(_, _)
Drop(v, n) ==
    IF n = 0 \/ v = <<>> THEN v
    ELSE IF v[1][2] <= n THEN Drop(Tail(v), n - v[1][2])
    ELSE << <<v[1][1], v[1][2] - n>> >> \o Tail(v)

\* istream::read(buf, n) at stream offset pos: the n bytes from pos on
ReadBytes(v, pos, n) == Take(Drop(v, pos), n)

\* ------------------------------------------------------------ codec (zlib)
\* zlib's compressBound(sourceLen)
compressBound(n) ==
    n + (n \div 4096) + (n \div 16384) + (n \div 33554432) + 13

\* The deflate stream of src: a lossless stand-in for zlib's encoder (one
\* header byte, then the bytes of src complemented); never longer than
\* compressBound(Size(src)).
Deflate(src) ==
    Concat(<< <<120, 1>> >>,
           [k \in DOMAIN src |-> <<255 - src[k][1], src[k][2]>>])

\* The bytes a deflate stream z decodes to (z starts with the header byte)
Inflate(z) ==
    LET body == Drop(z, 1)
    IN  [k \in DOMAIN body |-> <<255 - body[k][1], body[k][2]>>]

\* A buffer after data was stored at its start
Overwrite(buf, data) == Concat(data, Drop(buf, Size(data)))

\* compress2(dest, &destLen, source, sourceLen, level): dest is what it
\* stored at the start of the output buffer; fault is an allocation failure.
compress2(destLen, source, fault) ==
    LET z == Deflate(source)
    IN  IF fault
        THEN [ret |-> Z_MEM_ERROR, dest |-> <<>>, destLen |-> destLen]
        ELSE IF Size(z) > destLen
        THEN [ret |-> Z_BUF_ERROR, dest |-> Take(z, destLen), destLen |-> destLen]
        ELSE [ret |-> Z_OK, dest |-> z, destLen |-> Size(z)]

\* uncompress(dest, &destLen, source, sourceLen)
uncompress(destLen, source, fault) ==
    IF fault
    THEN [ret |-> Z_MEM_ERROR, dest |-> <<>>, destLen |-> destLen]
    ELSE IF source = <<>> \/ Take(source, 1) # << <<120, 1>> >>
    THEN [ret |-> Z_DATA_ERROR, dest |-> <<>>, destLen |-> destLen]
    ELSE IF Size(Inflate(source)) > destLen
    THEN [ret |-> Z_BUF_ERROR, dest |-> Take(Inflate(source), destLen),
          destLen |-> destLen]
    ELSE [ret |-> Z_OK, dest |-> Inflate(source),
          destLen |-> Size(Inflate(source))]

compress_chunk(inbuf, fault) ==
    LET src_len == Size(inbuf)
        bound == compressBound(src_len)
        \* r is compress2's result and outbuf the output buffer it left, each
        \* bound as a value computed once
        results ==
            { IF r.ret # Z_OK
              THEN [ok |-> FALSE, outbuf |-> outbuf]
              ELSE [ok |-> TRUE, outbuf |-> Take(outbuf, r.destLen)]
              : <<r, outbuf>> \in
                    { <<c, Overwrite(Zeros(bound), c.dest)>>
                      : c \in {compress2(bound, inbuf, fault)} } }
    IN  CHOOSE res \in results : TRUE

\* Mutant of decompress_chunk: the output buffer is emptied on failure
decompress_chunk_ClearOnError(inbuf, expected_size, fault) ==
    LET r == uncompress(expected_size, inbuf, fault)
        outbuf == Overwrite(Zeros(expected_size), r.dest)
    IN  IF r.ret # Z_OK \/ r.destLen # expected_size
        THEN [ok |-> FALSE, outbuf |-> <<>>]
        ELSE [ok |-> TRUE, outbuf |-> outbuf]

decompress_chunk(inbuf, expected_size, fault) ==
    LET r == uncompress(expected_size, inbuf, fault)
        outbuf == Overwrite(Zeros(expected_size), r.dest)
    IN  IF r.ret # Z_OK
        THEN [ok |-> FALSE, outbuf |-> outbuf]
        ELSE IF r.destLen # expected_size
        THEN [ok |-> FALSE, outbuf |-> outbuf]
        ELSE [ok |-> TRUE, outbuf |-> outbuf]

\* ------------------------------------------------------------ files
\* A plain file is [exists, data].  A container file is [exists, fields,
\* payload]: the header fields written so far (magic, version, count, then
\* two sizes per chunk) and the payload bytes after them.
NoFile == [exists |-> FALSE, data |-> <<>>]
NoContainer == [exists |-> FALSE, fields |-> <<>>, payload |-> <<>>]
EmptyContainer == [exists |-> TRUE, fields |-> <<>>, payload |-> <<>>]

\* Mutant of file_size: the failed open is not checked, and tellg() of the
\* failed stream is -1
file_size_NoOpenCheck(file) == IF ~file.exists THEN -1 ELSE Size(file.data)

file_size(file) == IF ~file.exists THEN 0 ELSE Size(file.data)

write_header(out, metas) ==
    [out EXCEPT !.fields =
        @ \o <<MAGIC, VERSION, Len(metas)>>
          \o [k \in 1..(2 * Len(metas)) |->
                IF k % 2 = 1 THEN metas[(k + 1) \div 2].compressed_size
                ELSE metas[k \div 2].original_size]]

\* The loop of read_header over the cnt records, from record i (0-based) on;
\* pos is the number of header fields consumed.
RECURSIVE ReadMetas(_, _, _, _, _)
ReadMetas(in, cnt, i, metas, pos) ==
    IF i >= cnt THEN [ok |-> TRUE, metas |-> metas, pos |-> pos]
    ELSE IF Len(in.fields) < pos + 1
    THEN [ok |-> FALSE, metas |-> metas, pos |-> pos]
    ELSE IF Len(in.fields) < pos + 2
    THEN [ok |-> FALSE, metas |-> metas, pos |-> pos + 1]
    ELSE ReadMetas(in, cnt, i + 1,
            Append(metas, [compressed_size |-> in.fields[pos + 1],
                           original_size |-> in.fields[pos + 2]]),
            pos + 2)

\* Mutant of read_header: the version is read but not compared
read_header_NoVersionCheck(in) ==
    IF Len(in.fields) < 1 THEN [ok |-> FALSE, metas |-> <<>>, pos |-> 0]
    ELSE IF in.fields[1] # MAGIC THEN [ok |-> FALSE, metas |-> <<>>, pos |-> 1]
    ELSE IF Len(in.fields) < 2 THEN [ok |-> FALSE, metas |-> <<>>, pos |-> 1]
    ELSE IF Len(in.fields) < 3 THEN [ok |-> FALSE, metas |-> <<>>, pos |-> 2]
    ELSE ReadMetas(in, in.fields[3], 0, <<>>, 3)

\* read_header, lines 92-107
read_header(in) ==
    IF Len(in.fields) < 1 THEN [ok |-> FALSE, metas |-> <<>>, pos |-> 0]
    ELSE IF in.fields[1] # MAGIC THEN [ok |-> FALSE, metas |-> <<>>, pos |-> 1]
    ELSE IF Len(in.fields) < 2 THEN [ok |-> FALSE, metas |-> <<>>, pos |-> 1]
    ELSE IF in.fields[2] # VERSION THEN [ok |-> FALSE, metas |-> <<>>, pos |-> 2]
    ELSE IF Len(in.fields) < 3 THEN [ok |-> FALSE, metas |-> <<>>, pos |-> 2]
    ELSE ReadMetas(in, in.fields[3], 0, <<>>, 3)

\* ------------------------------------------------------------ chunk layout
\* Mutants of PlanLayout: the stride rounded down; the floor branch leaving
\* the stride as it was; no floor branch; the floor branch always taken.
PlanLayout_FloorDiv(total_size, threads_requested) ==
    LET nthreads0 == Max(1, threads_requested)
        ideal0 == Max(1, total_size \div nthreads0)
        ideal1 == Min(MIN_CHUNK, total_size)
    IN  IF ideal0 < MIN_CHUNK
        THEN [ideal_chunk |-> ideal1,
              nthreads |-> Max(1, (total_size + ideal1 - 1) \div ideal1)]
        ELSE [ideal_chunk |-> ideal0, nthreads |-> nthreads0]

PlanLayout_KeepIdeal(total_size, threads_requested) ==
    LET nthreads0 == Max(1, threads_requested)
        ideal0 == (total_size + nthreads0 - 1) \div nthreads0
    IN  IF ideal0 < MIN_CHUNK
        THEN [ideal_chunk |-> ideal0,
              nthreads |-> Max(1, (total_size + ideal0 - 1) \div ideal0)]
        ELSE [ideal_chunk |-> ideal0, nthreads |-> nthreads0]

PlanLayout_NoFloor(total_size, threads_requested) ==
    LET nthreads0 == Max(1, threads_requested)
        ideal0 == (total_size + nthreads0 - 1) \div nthreads0
    IN  [ideal_chunk |-> ideal0, nthreads |-> nthreads0]

PlanLayout_AlwaysFloor(total_size, threads_requested) ==
    LET ideal1 == Min(MIN_CHUNK, total_size)
    IN  [ideal_chunk |-> ideal1,
         nthreads |-> Max(1, (total_size + ideal1 - 1) \div ideal1)]

\* compress_file, lines 121-129
PlanLayout(total_size, threads_requested) ==
    LET nthreads0 == Max(1, threads_requested)
        ideal0 == (total_size + nthreads0 - 1) \div nthreads0
        ideal1 == Min(MIN_CHUNK, total_size)
    IN  IF ideal0 < MIN_CHUNK
        THEN [ideal_chunk |-> ideal1,
              nthreads |-> Max(1, (total_size + ideal1 - 1) \div ideal1)]
        ELSE [ideal_chunk |-> ideal0, nthreads |-> nthreads0]

\* Mutant of ReadChunks: the size of a chunk not clamped to what remains
RECURSIVE ReadChunks_NoClamp(_, _, _, _, _, _)
ReadChunks_NoClamp(data, total_size, plan, i, pos, acc) ==
    IF i >= plan.nthreads THEN acc
    ELSE LET start == i * plan.ideal_chunk
             sz == plan.ideal_chunk
         IN  IF start >= total_size THEN acc
             ELSE ReadChunks_NoClamp(data, total_size, plan, i + 1, pos + sz,
                    [chunks |-> Append(acc.chunks, ReadBytes(data, pos, sz)),
                     orig_sizes |-> Append(acc.orig_sizes, sz)])

\* Mutant of ReadChunks: a trailing remainder shorter than the stride is
\* not emitted
RECURSIVE ReadChunks_SkipRemainder(_, _, _, _, _, _)
ReadChunks_SkipRemainder(data, total_size, plan, i, pos, acc) ==
    IF i >= plan.nthreads THEN acc
    ELSE LET start == i * plan.ideal_chunk
             remain == total_size - start
             sz == Min(plan.ideal_chunk, remain)
         IN  IF start >= total_size \/ (i > 0 /\ remain < plan.ideal_chunk)
             THEN acc
             ELSE ReadChunks_SkipRemainder(data, total_size, plan, i + 1,
                    pos + sz,
                    [chunks |-> Append(acc.chunks, ReadBytes(data, pos, sz)),
                     orig_sizes |-> Append(acc.orig_sizes, sz)])

\* compress_file, lines 135-143: the read loop from index i on; pos is the
\* offset of the input stream.
RECURSIVE ReadChunks(_, _, _, _, _, _)
ReadChunks(data, total_size, plan, i, pos, acc) ==
    IF i >= plan.nthreads THEN acc
    ELSE LET start == i * plan.ideal_chunk
             remain == total_size - start
             sz == Min(plan.ideal_chunk, remain)
         IN  IF start >= total_size THEN acc
             ELSE ReadChunks(data, total_size, plan, i + 1, pos + sz,
                    [chunks |-> Append(acc.chunks, ReadBytes(data, pos, sz)),
                     orig_sizes |-> Append(acc.orig_sizes, sz)])

\* ------------------------------------------------------------ inputs
\* Run lengths of the input files: below, at and above the chunk floor
RunLens == {1, MIN_CHUNK - 1, MIN_CHUNK, MIN_CHUNK + 1, 3 * MIN_CHUNK + 1}

\* The input with run lengths lens: run k holds the byte 64 + k
InputOf(lens) == [k \in DOMAIN lens |-> <<64 + k, lens[k]>>]

InputFiles ==
    {NoFile} \cup
    {[exists |-> TRUE, data |-> InputOf(lens)] :
        lens \in UNION {[1..n -> RunLens] : n \in 0..MaxRuns}}

\* What the output path of decompress_file holds before the run
StaleOutput == [exists |-> TRUE, data |-> << <<33, 2>> >>]

\* ------------------------------------------------------------ state
VARIABLES
    infile,             \* file at compress_file's inpath
    threads_requested,
    container,          \* file at compress_file's outpath = decompress_file's inpath
    outfile,            \* file at decompress_file's outpath
    pc,                 \* position of the main thread
    i,                  \* loop index of the main thread (0-based, as in the code)
    total_size, nthreads, ideal_chunk, chunks, orig_sizes,
    compressed, metas,
    workers,            \* compress_file's threads: position of each
    c_ret,              \* compress_file's return value, -1 before it returns
    d_metas,            \* decompress_file's metas
    in_pos,             \* decompress_file's input stream: fields and payload bytes consumed
    comp_blocks, decompressed,
    d_workers,          \* decompress_file's threads
    d_ret,              \* decompress_file's return value, -1 before it returns
    cerr                \* diagnostics written so far

vars == <<infile, threads_requested, container, outfile, pc, i, total_size,
          nthreads, ideal_chunk, chunks, orig_sizes, compressed, metas,
          workers, c_ret, d_metas, in_pos, comp_blocks, decompressed,
          d_workers, d_ret, cerr>>

c_locals == <<total_size, nthreads, ideal_chunk, chunks, orig_sizes,
              compressed, metas, workers>>
d_locals == <<d_metas, in_pos, comp_blocks, decompressed, d_workers>>
files == <<infile, threads_requested, container, outfile>>

chunk_count == Len(chunks)
d_chunk_count == Len(d_metas)

Init ==
    /\ infile \in InputFiles
    /\ threads_requested \in 0..MaxThreads
    /\ container = NoContainer
    /\ outfile = StaleOutput
    /\ pc = "c_size"
    /\ i = 0
    /\ total_size = 0 /\ nthreads = 0 /\ ideal_chunk = 0
    /\ chunks = <<>> /\ orig_sizes = <<>>
    /\ compressed = <<>> /\ metas = <<>> /\ workers = <<>>
    /\ c_ret = -1
    /\ d_metas = <<>> /\ in_pos = [fields |-> 0, payload |-> 0]
    /\ comp_blocks = <<>> /\ decompressed = <<>> /\ d_workers = <<>>
    /\ d_ret = -1
    /\ cerr = {}

\* ------------------------------------------------------------ compress_file
\* lines 111-115
c_size ==
    /\ pc = "c_size"
    /\ total_size' = file_size(infile)
    /\ IF file_size(infile) = 0
       THEN /\ cerr' = cerr \cup {<<"Empty or missing input file.">>}
            /\ c_ret' = 1
            /\ pc' = "env"
       ELSE /\ pc' = "c_open"
            /\ UNCHANGED <<cerr, c_ret>>
    /\ UNCHANGED <<files, i, nthreads, ideal_chunk, chunks, orig_sizes,
                   compressed, metas, workers, d_locals, d_ret>>

\* lines 117-118; the open fails when the file became unreadable
c_open ==
    /\ pc = "c_open"
    /\ \E ok \in BOOLEAN :
        IF ok
        THEN /\ pc' = "c_plan"
             /\ UNCHANGED <<cerr, c_ret>>
        ELSE /\ cerr' = cerr \cup {<<"Failed to open input file.">>}
             /\ c_ret' = 1
             /\ pc' = "env"
    /\ UNCHANGED <<files, i, c_locals, d_locals, d_ret>>

\* lines 121-150: the layout, the chunk reads, and the result vectors
c_plan ==
    /\ pc = "c_plan"
    /\ LET plan == PlanLayout(total_size, threads_requested)
           rd == ReadChunks(infile.data, total_size, plan, 0, 0,
                            [chunks |-> <<>>, orig_sizes |-> <<>>])
       IN  /\ nthreads' = plan.nthreads
           /\ ideal_chunk' = plan.ideal_chunk
           /\ chunks' = rd.chunks
           /\ orig_sizes' = rd.orig_sizes
           /\ compressed' = [k \in DOMAIN rd.chunks |-> <<>>]
           /\ metas' = [k \in DOMAIN rd.chunks |->
                          [compressed_size |-> 0, original_size |-> 0]]
           /\ workers' = [k \in DOMAIN rd.chunks |-> "idle"]
    /\ i' = 0
    /\ pc' = "c_spawn"
    /\ UNCHANGED <<files, total_size, c_ret, d_locals, d_ret, cerr>>

\* Mutant of c_spawn: the launch loop runs over the requested thread count
\* instead of the chunk count
c_spawn_Requested ==
    /\ pc = "c_spawn"
    /\ i < Max(1, threads_requested)
    /\ workers' = IF i + 1 \in DOMAIN workers
                  THEN [workers EXCEPT ![i + 1] = "call"]
                  ELSE Append(workers, "done")
    /\ IF i + 1 < Max(1, threads_requested)
       THEN i' = i + 1 /\ pc' = pc
       ELSE i' = 0 /\ pc' = "c_join"
    /\ UNCHANGED <<files, total_size, nthreads, ideal_chunk, chunks,
                   orig_sizes, compressed, metas, c_ret, d_locals, d_ret, cerr>>

\* lines 156-167: one iteration of the launch loop
c_spawn ==
    /\ pc = "c_spawn"
    /\ i < chunk_count
    /\ workers' = [workers EXCEPT ![i + 1] = "call"]
    /\ IF i + 1 < chunk_count
       THEN i' = i + 1 /\ pc' = pc
       ELSE i' = 0 /\ pc' = "c_join"
    /\ UNCHANGED <<files, total_size, nthreads, ideal_chunk, chunks,
                   orig_sizes, compressed, metas, c_ret, d_locals, d_ret, cerr>>

\* line 158: worker k calls compress_chunk(chunks[k], compressed[k])
c_worker_call(k) ==
    /\ workers[k] = "call"
    /\ \E fault \in BOOLEAN :
        LET r == compress_chunk(chunks[k], fault)
        IN  /\ compressed' = [compressed EXCEPT ![k] = r.outbuf]
            /\ workers' = [workers EXCEPT ![k] = IF r.ok THEN "ok" ELSE "fail"]
    /\ UNCHANGED <<files, pc, i, total_size, nthreads, ideal_chunk, chunks,
                   orig_sizes, metas, c_ret, d_locals, d_ret, cerr>>

\* Mutant of c_worker_fail: the failing task makes the other tasks stop
c_worker_fail_StopsSiblings(k) ==
    /\ workers[k] = "fail"
    /\ cerr' = cerr \cup {<<"Compression failed for chunk", k - 1>>}
    /\ metas' = [metas EXCEPT ![k] = [compressed_size |-> 0,
                                      original_size |-> Size(chunks[k])]]
    /\ workers' = [j \in DOMAIN workers |->
                     IF workers[j] = "idle" THEN "idle" ELSE "done"]
    /\ UNCHANGED <<files, pc, i, total_size, nthreads, ideal_chunk, chunks,
                   orig_sizes, compressed, c_ret, d_locals, d_ret>>

\* Mutant of c_worker_fail: the failure branch leaves original_size unset
c_worker_fail_NoOriginal(k) ==
    /\ workers[k] = "fail"
    /\ cerr' = cerr \cup {<<"Compression failed for chunk", k - 1>>}
    /\ metas' = [metas EXCEPT ![k] = [compressed_size |-> 0,
                                      original_size |-> 0]]
    /\ workers' = [workers EXCEPT ![k] = "done"]
    /\ UNCHANGED <<files, pc, i, total_size, nthreads, ideal_chunk, chunks,
                   orig_sizes, compressed, c_ret, d_locals, d_ret>>

\* lines 159-161: the failure branch of worker k
c_worker_fail(k) ==
    /\ workers[k] = "fail"
    /\ cerr' = cerr \cup {<<"Compression failed for chunk", k - 1>>}
    /\ metas' = [metas EXCEPT ![k] = [compressed_size |-> 0,
                                      original_size |-> Size(chunks[k])]]
    /\ workers' = [workers EXCEPT ![k] = "done"]
    /\ UNCHANGED <<files, pc, i, total_size, nthreads, ideal_chunk, chunks,
                   orig_sizes, compressed, c_ret, d_locals, d_ret>>

\* Mutant of c_worker_ok: the index captured by reference, so that the
\* record written is that of another slot
c_worker_ok_SharedIndex(k) ==
    /\ workers[k] = "ok"
    /\ metas' = [metas EXCEPT ![1] = [compressed_size |-> Size(compressed[k]),
                                      original_size |-> Size(chunks[k])]]
    /\ workers' = [workers EXCEPT ![k] = "done"]
    /\ UNCHANGED <<files, pc, i, total_size, nthreads, ideal_chunk, chunks,
                   orig_sizes, compressed, c_ret, d_locals, d_ret, cerr>>

\* lines 163-164: the success branch of worker k
c_worker_ok(k) ==
    /\ workers[k] = "ok"
    /\ metas' = [metas EXCEPT ![k] = [compressed_size |-> Size(compressed[k]),
                                      original_size |-> Size(chunks[k])]]
    /\ workers' = [workers EXCEPT ![k] = "done"]
    /\ UNCHANGED <<files, pc, i, total_size, nthreads, ideal_chunk, chunks,
                   orig_sizes, compressed, c_ret, d_locals, d_ret, cerr>>

\* Mutant of c_join: the main thread goes on without waiting for the thread
c_join_NoWait ==
    /\ pc = "c_join"
    /\ IF i + 1 < chunk_count
       THEN i' = i + 1 /\ pc' = pc
       ELSE i' = 0 /\ pc' = "c_openout"
    /\ UNCHANGED <<files, c_locals, c_ret, d_locals, d_ret, cerr>>

\* line 168: one join
c_join ==
    /\ pc = "c_join"
    /\ workers[i + 1] = "done"
    /\ IF i + 1 < chunk_count
       THEN i' = i + 1 /\ pc' = pc
       ELSE i' = 0 /\ pc' = "c_openout"
    /\ UNCHANGED <<files, c_locals, c_ret, d_locals, d_ret, cerr>>

\* lines 174-175; the open fails when the output path is unwritable
c_openout ==
    /\ pc = "c_openout"
    /\ \E ok \in BOOLEAN :
        IF ok
        THEN /\ container' = EmptyContainer
             /\ pc' = "c_header"
             /\ UNCHANGED <<cerr, c_ret>>
        ELSE /\ cerr' = cerr \cup {<<"Failed to open output file for writing.">>}
             /\ c_ret' = 1
             /\ pc' = "env"
             /\ UNCHANGED container
    /\ UNCHANGED <<infile, threads_requested, outfile, i, c_locals, d_locals, d_ret>>

\* line 176
c_header ==
    /\ pc = "c_header"
    /\ container' = write_header(container, metas)
    /\ i' = 0
    /\ pc' = "c_write"
    /\ UNCHANGED <<infile, threads_requested, outfile, c_locals, c_ret,
                   d_locals, d_ret, cerr>>

\* Mutant of c_write: the payloads are written last chunk first
c_write_Reversed ==
    /\ pc = "c_write"
    /\ i < chunk_count
    /\ container' = [container EXCEPT
                        !.payload = Concat(@, compressed[chunk_count - i])]
    /\ IF i + 1 < chunk_count
       THEN i' = i + 1 /\ pc' = pc
       ELSE i' = 0 /\ pc' = "c_close"
    /\ UNCHANGED <<infile, threads_requested, outfile, c_locals, c_ret,
                   d_locals, d_ret, cerr>>

\* lines 177-179: one iteration of the payload loop
c_write ==
    /\ pc = "c_write"
    /\ i < chunk_count
    /\ container' = [container EXCEPT !.payload = Concat(@, compressed[i + 1])]
    /\ IF i + 1 < chunk_count
       THEN i' = i + 1 /\ pc' = pc
       ELSE i' = 0 /\ pc' = "c_close"
    /\ UNCHANGED <<infile, threads_requested, outfile, c_locals, c_ret,
                   d_locals, d_ret, cerr>>

\* lines 180-188
c_close ==
    /\ pc = "c_close"
    /\ c_ret' = 0
    /\ pc' = "env"
    /\ UNCHANGED <<files, i, c_locals, d_locals, d_ret, cerr>>

\* ------------------------------------------------------------ environment
\* Between the two runs the container may be damaged: its magic tag or its
\* version altered, or the file cut short in the header or in the payload.
BadMagic == <<"M", "T", "Z", "2">>
BadVersion == VERSION + 1

env_alter_magic ==
    /\ pc = "env" /\ container.exists /\ Len(container.fields) >= 1
    /\ container' = [container EXCEPT !.fields[1] = BadMagic]
    /\ pc' = "d_open"
    /\ UNCHANGED <<infile, threads_requested, outfile, i, c_locals, c_ret,
                   d_locals, d_ret, cerr>>

env_alter_version ==
    /\ pc = "env" /\ container.exists /\ Len(container.fields) >= 2
    /\ container' = [container EXCEPT !.fields[2] = BadVersion]
    /\ pc' = "d_open"
    /\ UNCHANGED <<infile, threads_requested, outfile, i, c_locals, c_ret,
                   d_locals, d_ret, cerr>>

env_cut_header ==
    /\ pc = "env" /\ container.exists
    /\ \E n \in 0..(Len(container.fields) - 1) :
        container' = [container EXCEPT !.fields = SubSeq(@, 1, n),
                                       !.payload = <<>>]
    /\ pc' = "d_open"
    /\ UNCHANGED <<infile, threads_requested, outfile, i, c_locals, c_ret,
                   d_locals, d_ret, cerr>>

env_cut_payload ==
    /\ pc = "env" /\ container.exists /\ container.payload # <<>>
    /\ \E n \in {0, Size(container.payload) - 1} :
        container' = [container EXCEPT !.payload = Take(@, n)]
    /\ pc' = "d_open"
    /\ UNCHANGED <<infile, threads_requested, outfile, i, c_locals, c_ret,
                   d_locals, d_ret, cerr>>

\* ------------------------------------------------------------ decompress_file
\* lines 193-194
d_open ==
    /\ pc \in {"env", "d_open"}
    /\ IF container.exists
       THEN /\ pc' = "d_header"
            /\ UNCHANGED <<cerr, d_ret>>
       ELSE /\ cerr' = cerr \cup {<<"Cannot open compressed file.">>}
            /\ d_ret' = 1
            /\ pc' = "done"
    /\ UNCHANGED <<files, i, c_locals, c_ret, d_locals>>

\* lines 196-202
d_header ==
    /\ pc = "d_header"
    /\ LET h == read_header(container)
       IN  /\ in_pos' = [in_pos EXCEPT !.fields = h.pos]
           /\ d_metas' = h.metas
           /\ IF ~h.ok
              THEN /\ cerr' = cerr \cup {<<"Invalid or corrupted header.">>}
                   /\ d_ret' = 1
                   /\ pc' = "done"
                   /\ UNCHANGED comp_blocks
              ELSE /\ comp_blocks' = [k \in DOMAIN h.metas |-> <<>>]
                   /\ pc' = IF h.metas = <<>> THEN "d_vectors" ELSE "d_read"
                   /\ UNCHANGED <<cerr, d_ret>>
    /\ i' = 0
    /\ UNCHANGED <<files, c_locals, c_ret, decompressed, d_workers>>

\* Mutant of d_read: the result of the read is not tested
d_read_Unchecked ==
    /\ pc = "d_read"
    /\ i < d_chunk_count
    /\ LET n == d_metas[i + 1].compressed_size
           got == ReadBytes(container.payload, in_pos.payload, n)
       IN  /\ comp_blocks' = [comp_blocks EXCEPT ![i + 1] = Overwrite(Zeros(n), got)]
           /\ in_pos' = [in_pos EXCEPT !.payload = @ + Size(got)]
    /\ IF i + 1 < d_chunk_count
       THEN i' = i + 1 /\ pc' = pc
       ELSE i' = 0 /\ pc' = "d_vectors"
    /\ UNCHANGED <<files, c_locals, c_ret, d_metas, decompressed, d_workers,
                   cerr, d_ret>>

\* lines 204-207: one iteration of the block read loop
d_read ==
    /\ pc = "d_read"
    /\ i < d_chunk_count
    /\ LET n == d_metas[i + 1].compressed_size
           avail == Size(container.payload) - in_pos.payload
           got == ReadBytes(container.payload, in_pos.payload, n)
       IN  /\ comp_blocks' = [comp_blocks EXCEPT ![i + 1] = Overwrite(Zeros(n), got)]
           /\ in_pos' = [in_pos EXCEPT !.payload = @ + Size(got)]
           /\ IF avail < n
              THEN /\ cerr' = cerr \cup {<<"Failed reading compressed block", i>>}
                   /\ d_ret' = 1
                   /\ pc' = "done"
                   /\ i' = i
              ELSE /\ IF i + 1 < d_chunk_count
                      THEN i' = i + 1 /\ pc' = pc
                      ELSE i' = 0 /\ pc' = "d_vectors"
                   /\ UNCHANGED <<cerr, d_ret>>
    /\ UNCHANGED <<files, c_locals, c_ret, d_metas, decompressed, d_workers>>

\* lines 209-215
d_vectors ==
    /\ pc = "d_vectors"
    /\ decompressed' = [k \in DOMAIN d_metas |-> <<>>]
    /\ d_workers' = [k \in DOMAIN d_metas |-> "idle"]
    /\ i' = 0
    /\ pc' = IF d_metas = <<>> THEN "d_openout" ELSE "d_spawn"
    /\ UNCHANGED <<files, c_locals, c_ret, d_metas, in_pos, comp_blocks,
                   d_ret, cerr>>

\* lines 216-222: one iteration of the launch loop
d_spawn ==
    /\ pc = "d_spawn"
    /\ i < d_chunk_count
    /\ d_workers' = [d_workers EXCEPT ![i + 1] = "call"]
    /\ IF i + 1 < d_chunk_count
       THEN i' = i + 1 /\ pc' = pc
       ELSE i' = 0 /\ pc' = "d_join"
    /\ UNCHANGED <<files, c_locals, c_ret, d_metas, in_pos, comp_blocks,
                   decompressed, d_ret, cerr>>

\* lines 218-220: worker k
d_worker(k) ==
    /\ d_workers[k] = "call"
    /\ \E fault \in BOOLEAN :
        LET r == decompress_chunk(comp_blocks[k], d_metas[k].original_size, fault)
        IN  /\ decompressed' = [decompressed EXCEPT ![k] = r.outbuf]
            /\ cerr' = IF r.ok THEN cerr
                       ELSE cerr \cup {<<"Decompression failed for chunk", k - 1>>}
    /\ d_workers' = [d_workers EXCEPT ![k] = "done"]
    /\ UNCHANGED <<files, pc, i, c_locals, c_ret, d_metas, in_pos,
                   comp_blocks, d_ret>>

\* Mutant of d_join: the main thread goes on without waiting for the thread
d_join_NoWait ==
    /\ pc = "d_join"
    /\ IF i + 1 < d_chunk_count
       THEN i' = i + 1 /\ pc' = pc
       ELSE i' = 0 /\ pc' = "d_openout"
    /\ UNCHANGED <<files, c_locals, c_ret, d_locals, d_ret, cerr>>

\* line 223: one join
d_join ==
    /\ pc = "d_join"
    /\ d_workers[i + 1] = "done"
    /\ IF i + 1 < d_chunk_count
       THEN i' = i + 1 /\ pc' = pc
       ELSE i' = 0 /\ pc' = "d_openout"
    /\ UNCHANGED <<files, c_locals, c_ret, d_locals, d_ret, cerr>>

\* lines 229-230; the open fails when the output path is unwritable
d_openout ==
    /\ pc = "d_openout"
    /\ \E ok \in BOOLEAN :
        IF ok
        THEN /\ outfile' = [exists |-> TRUE, data |-> <<>>]
             /\ pc' = IF d_metas = <<>> THEN "d_close" ELSE "d_write"
             /\ UNCHANGED <<cerr, d_ret>>
        ELSE /\ cerr' = cerr \cup {<<"Failed to open output file for writing.">>}
             /\ d_ret' = 1
             /\ pc' = "done"
             /\ UNCHANGED outfile
    /\ i' = 0
    /\ UNCHANGED <<infile, threads_requested, container, c_locals, c_ret,
                   d_locals>>

\* lines 231-233: one iteration of the write loop
d_write ==
    /\ pc = "d_write"
    /\ i < d_chunk_count
    /\ outfile' = [outfile EXCEPT !.data = Concat(@, decompressed[i + 1])]
    /\ IF i + 1 < d_chunk_count
       THEN i' = i + 1 /\ pc' = pc
       ELSE i' = 0 /\ pc' = "d_close"
    /\ UNCHANGED <<infile, threads_requested, container, c_locals, c_ret,
                   d_locals, d_ret, cerr>>

\* lines 234-238
d_close ==
    /\ pc = "d_close"
    /\ d_ret' = 0
    /\ pc' = "done"
    /\ UNCHANGED <<files, i, c_locals, c_ret, d_locals, cerr>>

\* ------------------------------------------------------------ specification
Next ==
    \/ c_size \/ c_open \/ c_plan \/ c_spawn \/ c_join
    \/ c_openout \/ c_header \/ c_write \/ c_close
    \/ \E k \in DOMAIN workers : c_worker_call(k)
    \/ \E k \in DOMAIN workers : c_worker_fail(k)
    \/ \E k \in DOMAIN workers : c_worker_ok(k)
    \/ env_alter_magic \/ env_alter_version \/ env_cut_header \/ env_cut_payload
    \/ d_open \/ d_header \/ d_read \/ d_vectors \/ d_spawn \/ d_join
    \/ d_openout \/ d_write \/ d_close
    \/ \E k \in DOMAIN d_workers : d_worker(k)

Spec == Init /\ [][Next]_vars

\* Every thread that can take a step is scheduled in the end, and every
\* call returns: the program does not stop while a step is possible.
FairSpec == Spec /\ WF_vars(Next)

\* ------------------------------------------------------------ properties
RECURSIVE SumSeq(_)
SumSeq(q) == IF q = <<>> THEN 0 ELSE q[1] + SumSeq(Tail(q))

\* The layout has been computed (compress_file is past line 150)
Planned == nthreads > 0

\* compress_file has returned 0 and its container is as it wrote it
Compressed == pc = "env" /\ c_ret = 0

CompressFailed(k) == <<"Compression failed for chunk", k - 1>> \in cerr
DecompressFailed(k) == <<"Decompression failed for chunk", k - 1>> \in cerr
NoCodecFailure ==
    \A k \in 1..(MaxThreads + 1) : ~CompressFailed(k) /\ ~DecompressFailed(k)

\* The byte range of chunk k (1-based) in the layout: [ChunkStart, ChunkEnd)
ChunkStart(k) == (k - 1) * ideal_chunk
ChunkEnd(k) == ChunkStart(k) + orig_sizes[k]

\* C1: when compress_file and then decompress_file both return 0 and no
\* codec call failed, the output file equals the input file byte for byte.
C1_RoundTrip ==
    (c_ret = 0 /\ d_ret = 0 /\ NoCodecFailure) => outfile.data = infile.data

C1_Witness ==
    /\ c_ret = 0 /\ d_ret = 0 /\ NoCodecFailure
    /\ Len(chunks) = 3 /\ chunks[1] # chunks[2] /\ chunks[2] # chunks[3]
    /\ outfile.data = infile.data

\* C2: the chunk ranges [i*ideal_chunk, i*ideal_chunk + size_i) partition
\* [0, total_size): the first starts at 0, consecutive ranges are adjacent,
\* none is empty, none passes total_size, the last ends at total_size, and
\* the sizes sum to total_size.
C2_Partition ==
    Planned =>
        /\ Len(orig_sizes) >= 1
        /\ ChunkStart(1) = 0
        /\ \A k \in DOMAIN orig_sizes :
              /\ orig_sizes[k] > 0
              /\ ChunkEnd(k) <= total_size
              /\ k < Len(orig_sizes) => ChunkEnd(k) = ChunkStart(k + 1)
        /\ ChunkEnd(Len(orig_sizes)) = total_size
        /\ SumSeq(orig_sizes) = total_size

C2_Witness ==
    /\ Planned /\ Len(orig_sizes) = 3
    /\ orig_sizes[3] < orig_sizes[1]
    /\ SumSeq(orig_sizes) = total_size

\* C7 as claimed: for total_size >= MIN_CHUNK and P >= 1 no chunk of the
\* layout is smaller than MIN_CHUNK.
C7_NoChunkBelowFloor ==
    (Planned /\ total_size >= MIN_CHUNK /\ threads_requested >= 1) =>
        \A k \in DOMAIN orig_sizes : orig_sizes[k] >= MIN_CHUNK

\* C7 amended: for total_size >= MIN_CHUNK and P >= 1 the stride
\* ideal_chunk is at least MIN_CHUNK and every chunk but the last has size
\* ideal_chunk, hence at least MIN_CHUNK; only the last chunk, the
\* remainder, may be smaller.
C7_FloorButLast ==
    (Planned /\ total_size >= MIN_CHUNK /\ threads_requested >= 1) =>
        /\ ideal_chunk >= MIN_CHUNK
        /\ \A k \in 1..(Len(orig_sizes) - 1) :
              orig_sizes[k] = ideal_chunk /\ orig_sizes[k] >= MIN_CHUNK
        /\ orig_sizes[Len(orig_sizes)] > 0

C7_Witness ==
    /\ Planned /\ total_size >= MIN_CHUNK /\ threads_requested >= 2
    /\ Len(orig_sizes) >= 2
    /\ orig_sizes[1] >= MIN_CHUNK
    /\ orig_sizes[Len(orig_sizes)] < MIN_CHUNK

\* C8: for 0 < total_size < MIN_CHUNK the layout is one chunk of size
\* total_size, whatever the requested thread count, and the container
\* written has chunk_count = 1.
C8_SmallInputOneChunk ==
    (Planned /\ total_size < MIN_CHUNK) =>
        /\ Len(chunks) = 1
        /\ orig_sizes = <<total_size>>
        /\ Size(chunks[1]) = total_size
        /\ Compressed => container.fields[3] = 1

C8_Witness ==
    /\ Compressed /\ total_size > 1 /\ total_size < MIN_CHUNK
    /\ threads_requested > 1
    /\ container.fields[3] = 1

\* C9: the number of chunks, and of records in the container, is at least 1
\* and at most max(1, threads_requested).
C9_ChunkCountBounds ==
    Planned =>
        /\ 1 <= Len(chunks)
        /\ Len(chunks) <= Max(1, threads_requested)
        /\ Compressed =>
              /\ container.fields[3] = Len(chunks)
              /\ Len(container.fields) = 3 + 2 * Len(chunks)

C9_Witness ==
    /\ Compressed
    /\ threads_requested = MaxThreads
    /\ container.fields[3] < threads_requested
    /\ container.fields[3] > 1

\* The bytes of block k among the blocks of sizes lens laid end to end in v
Block(v, lens, k) == ReadBytes(v, SumSeq(SubSeq(lens, 1, k - 1)), lens[k])

WrittenSizes == [k \in DOMAIN compressed |-> Size(compressed[k])]
DeclaredSizes == [k \in DOMAIN d_metas |-> d_metas[k].compressed_size]
DeclaredOriginals == [k \in DOMAIN d_metas |-> d_metas[k].original_size]

\* C3 as claimed: in the container compress_file wrote, the header's count
\* is the number of payload blocks written, and the bytes written for chunk
\* i are as many as the header's compressed_size of chunk i.
C3_SelfDescribing ==
    Compressed =>
        /\ container.fields[3] = Len(compressed)
        /\ \A k \in DOMAIN compressed :
              Size(compressed[k]) = container.fields[2 + 2 * k]
        /\ Size(container.payload) =
              SumSeq([k \in DOMAIN compressed |-> container.fields[2 + 2 * k]])

\* C4 as claimed: compress_file and decompress_file return 0 only when no
\* chunk task reported a codec failure.
C4_ExitStatus ==
    /\ c_ret = 0 => \A k \in DOMAIN chunks : ~CompressFailed(k)
    /\ d_ret = 0 => \A k \in DOMAIN d_metas : ~DecompressFailed(k)

\* C5: whatever the order in which the workers ran, record i and payload
\* block i of the container compress_file wrote are those of input chunk i
\* (its size; its deflate stream, or the untouched buffer of its failed
\* task), and block i of the file decompress_file wrote is the decoding of
\* payload block i of the container (zeros of the declared size when the
\* decoding failed before storing anything).
C5_OrderedOutput ==
    /\ Compressed =>
          \A k \in DOMAIN chunks :
              LET range == ReadBytes(infile.data, ChunkStart(k), ideal_chunk)
                  blk == Block(container.payload, WrittenSizes, k)
              IN  /\ container.fields[3 + 2 * k] = Size(range)
                  /\ IF CompressFailed(k)
                     THEN /\ container.fields[2 + 2 * k] = 0
                          /\ blk = Zeros(compressBound(Size(range)))
                     ELSE /\ container.fields[2 + 2 * k] = Size(blk)
                          /\ Inflate(blk) = range
    /\ d_ret = 0 =>
          \A k \in DOMAIN d_metas :
              LET src == Block(container.payload, DeclaredSizes, k)
                  blk == Block(outfile.data, DeclaredOriginals, k)
              IN  IF DecompressFailed(k)
                  THEN Size(blk) = d_metas[k].original_size
                  ELSE src # <<>> /\ blk = Inflate(src)

C5_Witness ==
    /\ d_ret = 0 /\ c_ret = 0 /\ NoCodecFailure
    /\ Len(chunks) = 3 /\ Len(d_metas) = 3
    /\ chunks[1] # chunks[2] /\ chunks[2] # chunks[3] /\ chunks[1] # chunks[3]
    /\ Block(outfile.data, DeclaredOriginals, 3) = chunks[3]

\* decompress_file has started on a container whose magic tag or version
\* is not the expected one
InDecompress ==
    pc \in {"d_header", "d_read", "d_vectors", "d_spawn", "d_join",
            "d_openout", "d_write", "d_close", "done"}
BadFormat ==
    /\ container.exists
    /\ \/ Len(container.fields) >= 1 /\ container.fields[1] # MAGIC
       \/ Len(container.fields) >= 2 /\ container.fields[2] # VERSION

\* C6: on a container whose magic tag or version differs, decompress_file
\* returns 1, having read no chunk metadata and no payload, started no
\* worker, and left the output file as it was.
C6_FormatRejection ==
    (InDecompress /\ BadFormat) =>
        /\ pc \in {"d_header", "done"}
        /\ pc = "done" => d_ret = 1
        /\ in_pos.fields <= 2 /\ in_pos.payload = 0
        /\ d_metas = <<>> /\ comp_blocks = <<>>
        /\ d_workers = <<>>
        /\ outfile = StaleOutput

C6_Witness ==
    /\ pc = "done" /\ BadFormat /\ d_ret = 1
    /\ container.fields[1] = MAGIC /\ container.fields[2] # VERSION
    /\ in_pos.fields = 2
    /\ <<"Invalid or corrupted header.">> \in cerr

\* C10 as claimed: compress_file or decompress_file returns 1 only from a
\* state in which none of its worker threads was ever started.
C10_ErrorsBeforeWorkers ==
    /\ c_ret = 1 => \A k \in DOMAIN workers : workers[k] = "idle"
    /\ d_ret = 1 => \A k \in DOMAIN d_workers : d_workers[k] = "idle"

EmptyInput == ~infile.exists \/ Size(infile.data) = 0

\* C11: on a missing or zero-length input compress_file returns 1 right
\* after file_size: no layout is computed, no chunk is read, no worker is
\* started, and the output path is neither created nor truncated.
C11_EmptyInput ==
    (EmptyInput /\ pc # "c_size") =>
        /\ c_ret = 1
        /\ <<"Empty or missing input file.">> \in cerr
        /\ ~Planned /\ chunks = <<>> /\ orig_sizes = <<>>
        /\ workers = <<>>
        /\ container = NoContainer

C11_Witness ==
    /\ infile.exists /\ infile.data = <<>>
    /\ threads_requested > 1
    /\ pc = "done" /\ c_ret = 1
    /\ container = NoContainer

\* C12: while a worker of compress_file has not finished the output file is
\* not opened and the main thread is in the launch or join loop; the same
\* for decompress_file; in the write phase of either every worker is done.
C12_FullBarrier ==
    /\ (\E k \in DOMAIN workers : workers[k] \notin {"idle", "done"}) =>
          /\ pc \in {"c_spawn", "c_join"}
          /\ container = NoContainer
    /\ pc \in {"c_openout", "c_header", "c_write", "c_close"} =>
          \A k \in DOMAIN workers : workers[k] = "done"
    /\ (\E k \in DOMAIN d_workers : d_workers[k] \notin {"idle", "done"}) =>
          /\ pc \in {"d_spawn", "d_join"}
          /\ outfile = StaleOutput
    /\ pc \in {"d_openout", "d_write", "d_close"} =>
          \A k \in DOMAIN d_workers : d_workers[k] = "done"

C12_Witness ==
    /\ pc = "d_write" /\ i = 1
    /\ Len(workers) = 3 /\ Len(d_workers) = 3
    /\ outfile.data # <<>>

\* A step of worker k of compress_file, of decompress_file
WorkerStep(k) ==
    workers[k] \in {"call", "ok", "fail"} /\ workers'[k] # workers[k]
DWorkerStep(k) ==
    d_workers[k] = "call" /\ d_workers'[k] # d_workers[k]

\* C13: a step of task k leaves the input array as it is, changes no slot
\* of the output and metadata arrays but slot k, and what it stores in slot
\* k is computed from slot k of the input array alone; so no slot is
\* written by two tasks and no task reads what another writes.
C13_DisjointSlots ==
    [][/\ \A k \in DOMAIN workers :
             WorkerStep(k) =>
                /\ chunks' = chunks
                /\ \A j \in DOMAIN workers \ {k} :
                      /\ compressed'[j] = compressed[j]
                      /\ metas'[j] = metas[j]
                      /\ workers'[j] = workers[j]
                /\ workers[k] = "call" =>
                      /\ metas' = metas
                      /\ compressed'[k] \in
                            {compress_chunk(chunks[k], f).outbuf : f \in BOOLEAN}
                /\ workers[k] \in {"ok", "fail"} =>
                      /\ compressed' = compressed
                      /\ metas'[k].original_size = Size(chunks[k])
                      /\ metas'[k].compressed_size \in {0, Size(compressed[k])}
       /\ \A k \in DOMAIN d_workers :
             DWorkerStep(k) =>
                /\ comp_blocks' = comp_blocks
                /\ d_metas' = d_metas
                /\ \A j \in DOMAIN d_workers \ {k} :
                      /\ decompressed'[j] = decompressed[j]
                      /\ d_workers'[j] = d_workers[j]
                /\ decompressed'[k] \in
                      {decompress_chunk(comp_blocks[k],
                                        d_metas[k].original_size, f).outbuf :
                          f \in BOOLEAN}]_vars

C13_Witness ==
    /\ Len(workers) = 3
    /\ workers[1] = "call" /\ workers[2] = "ok" /\ workers[3] = "done"
    /\ compressed[1] = <<>> /\ compressed[2] # <<>>
    /\ metas[2].original_size = 0 /\ metas[3].original_size > 0

\* compress_file is past its barrier with every task complete, and has
\* returned: 0 with all blocks written, or 1 for the output open
AllCompressTasksRan ==
    \A j \in DOMAIN workers :
        /\ workers[j] = "done"
        /\ compressed[j] # <<>>
        /\ metas[j].original_size = Size(chunks[j])
CompressWentOn ==
    /\ pc = "env" /\ AllCompressTasksRan
    /\ \/ /\ c_ret = 0
          /\ Size(container.payload) = SumSeq(WrittenSizes)
       \/ /\ c_ret = 1
          /\ <<"Failed to open output file for writing.">> \in cerr

AllDecompressTasksRan ==
    \A j \in DOMAIN d_workers :
        /\ d_workers[j] = "done"
        /\ Size(decompressed[j]) = d_metas[j].original_size
DecompressWentOn ==
    /\ pc = "done" /\ AllDecompressTasksRan
    /\ \/ /\ d_ret = 0
          /\ Size(outfile.data) = SumSeq(DeclaredOriginals)
       \/ /\ d_ret = 1
          /\ <<"Failed to open output file for writing.">> \in cerr

\* C14: a step in which the codec call of task k fails, or in which task k
\* reports its failure, changes no slot and no thread but k and does not
\* move the main thread; and once a task has failed, every task still runs
\* to completion, the join loop ends, and the main thread goes on to open
\* and write the output file (returning 1 only if that open fails).
C14_FailureDoesNotStopSiblings ==
    /\ [][/\ \A k \in DOMAIN workers :
                (WorkerStep(k) /\ (workers[k] = "fail" \/ workers'[k] = "fail")) =>
                    /\ pc' = pc /\ c_ret' = c_ret
                    /\ \A j \in DOMAIN workers \ {k} :
                          /\ workers'[j] = workers[j]
                          /\ compressed'[j] = compressed[j]
                          /\ metas'[j] = metas[j]
          /\ \A k \in DOMAIN d_workers :
                (DWorkerStep(k) /\ ~DecompressFailed(k) /\ DecompressFailed(k)') =>
                    /\ pc' = pc /\ d_ret' = d_ret
                    /\ \A j \in DOMAIN d_workers \ {k} :
                          /\ d_workers'[j] = d_workers[j]
                          /\ decompressed'[j] = decompressed[j]]_vars
    /\ (\E k \in DOMAIN workers : workers[k] = "fail") ~> CompressWentOn
    /\ (\E k \in DOMAIN d_workers :
            d_workers[k] = "done" /\ DecompressFailed(k)) ~> DecompressWentOn

C14_Witness ==
    /\ CompressWentOn /\ c_ret = 0
    /\ Len(chunks) = 3
    /\ ~CompressFailed(1) /\ CompressFailed(2) /\ ~CompressFailed(3)
    /\ metas[1].compressed_size > 0 /\ metas[2].compressed_size = 0
    /\ metas[3].compressed_size > 0



\* ceil(a / b) for b > 0
CeilDiv(a, b) == (a + b - 1) \div b

\* C15: once the layout is planned, the number of chunks is
\* ceil(total_size / ideal_chunk); every chunk but the last holds exactly
\* ideal_chunk bytes and the last holds total_size - (count - 1) *
\* ideal_chunk, a value in (0, ideal_chunk]; chunk k starts at stride
\* (k - 1) * ideal_chunk, which lies before total_size, and the stride after
\* the last chunk starts at or past total_size and has no chunk.
C15_StrideLayout ==
    Planned =>
        LET count == Len(orig_sizes)
            last == total_size - (count - 1) * ideal_chunk
        IN  /\ ideal_chunk > 0
            /\ count = CeilDiv(total_size, ideal_chunk)
            /\ count = Len(chunks)
            /\ \A k \in 1..count :
                  /\ ChunkStart(k) = (k - 1) * ideal_chunk
                  /\ Size(chunks[k]) = orig_sizes[k]
                  /\ k < count => orig_sizes[k] = ideal_chunk
            /\ orig_sizes[count] = last
            /\ 0 < last /\ last <= ideal_chunk
            /\ \A k \in 1..count : (k - 1) * ideal_chunk < total_size
            /\ count * ideal_chunk >= total_size
            /\ count <= nthreads

\* a planned layout of three strides whose last chunk is a remainder
C15_Witness ==
    /\ Planned /\ pc = "c_spawn"
    /\ Len(orig_sizes) = 3
    /\ orig_sizes[1] = ideal_chunk /\ orig_sizes[2] = ideal_chunk
    /\ orig_sizes[3] < ideal_chunk


\* The original_size field of record k (1-based) in the container's header
HeaderOriginal(k) == container.fields[3 + 2 * k]

\* C16: in the container compress_file wrote (its input is then non-empty),
\* there is one record per input chunk, and the original_size of record k is
\* positive and is the length of input chunk k, for a chunk whose
\* compression succeeded and for one whose compression failed alike.
C16_NonEmptyChunks ==
    Compressed =>
        /\ Size(infile.data) > 0
        /\ Len(container.fields) = 3 + 2 * Len(chunks)
        /\ \A k \in DOMAIN chunks :
              /\ HeaderOriginal(k) > 0
              /\ HeaderOriginal(k) = Size(chunks[k])
              /\ HeaderOriginal(k) = orig_sizes[k]
              /\ chunks[k] = ReadBytes(infile.data, ChunkStart(k), orig_sizes[k])

\* a container of three records, the second of a chunk whose compression
\* failed and the third of a one-byte remainder chunk
C16_Witness ==
    /\ Compressed /\ Len(chunks) = 3
    /\ ~CompressFailed(1) /\ CompressFailed(2) /\ ~CompressFailed(3)
    /\ HeaderOriginal(2) = MIN_CHUNK
    /\ HeaderOriginal(3) = 1


\* The tasks of a thread vector that have been started
Started(w) == {k \in DOMAIN w : w[k] # "idle"}

\* C17: compress_file has one worker per chunk of the planned layout, its
\* launch loop has started exactly the first i of them, and past the loop
\* every one of them and no other; decompress_file likewise has one worker
\* per record the container's header declares. This holds for every
\* requested thread count.
C17_ThreadPerChunk ==
    /\ ~Planned => workers = <<>>
    /\ Planned =>
          /\ Len(workers) = Len(chunks)
          /\ Len(chunks) = CeilDiv(total_size, ideal_chunk)
          /\ Started(workers) = IF pc = "c_spawn" THEN 1..i ELSE DOMAIN chunks
    /\ pc \in {"d_spawn", "d_join", "d_openout", "d_write", "d_close"} =>
          /\ Len(d_workers) = container.fields[3]
          /\ Started(d_workers) =
                IF pc = "d_spawn" THEN 1..i ELSE 1..container.fields[3]
    /\ pc \notin {"d_spawn", "d_join", "d_openout", "d_write", "d_close", "done"}
          => d_workers = <<>>
    /\ pc = "done" =>
          \/ d_workers = <<>> /\ d_ret = 1
          \/ Started(d_workers) = 1..container.fields[3]

\* three threads requested, two chunks planned: two compress workers and
\* two decompress workers were started
C17_Witness ==
    /\ pc = "d_join" /\ threads_requested = 3
    /\ Len(chunks) = 2 /\ Started(workers) = {1, 2}
    /\ container.fields[3] = 2 /\ Started(d_workers) = {1, 2}


\* The buffers of a vector written one after the other
RECURSIVE Joined(_)
Joined(bufs) ==
    IF bufs = <<>> THEN <<>> ELSE Concat(bufs[1], Joined(Tail(bufs)))

Running(w) == \E k \in DOMAIN w : w[k] \in {"call", "ok", "fail"}

CompressErrors ==
    {<<"Empty or missing input file.">>, <<"Failed to open input file.">>,
     <<"Failed to open output file for writing.">>}
DecompressErrors ==
    {<<"Cannot open compressed file.">>, <<"Invalid or corrupted header.">>,
     <<"Failed to open output file for writing.">>}
    \cup {<<"Failed reading compressed block", j>> : j \in 0..MaxThreads}

\* compress_file has just returned: no worker is running, and either it
\* returned 0 with the header and every payload in the closed container, or
\* it returned 1 with an error on cerr
CompressReturned ==
    /\ c_ret \in {0, 1}
    /\ ~Running(workers)
    /\ c_ret = 0 =>
          /\ \A k \in DOMAIN workers : workers[k] = "done"
          /\ container = [exists |-> TRUE,
                          fields |-> write_header(EmptyContainer, metas).fields,
                          payload |-> Joined(compressed)]
    /\ c_ret = 1 => CompressErrors \cap cerr # {}

\* decompress_file has returned, likewise
DecompressReturned ==
    /\ d_ret \in {0, 1}
    /\ ~Running(d_workers)
    /\ d_ret = 0 =>
          /\ \A k \in DOMAIN d_workers : d_workers[k] = "done"
          /\ outfile = [exists |-> TRUE, data |-> Joined(decompressed)]
    /\ d_ret = 1 => DecompressErrors \cap cerr # {}

C19_OutputLength ==
    /\ pc \in {"d_openout", "d_write", "d_close"} \/ (pc = "done" /\ d_ret = 0) =>
          /\ Len(decompressed) = Len(d_metas)
          /\ \A k \in DOMAIN d_metas :
                /\ d_metas[k].original_size = HeaderOriginal(k)
                /\ Size(decompressed[k]) = d_metas[k].original_size
    /\ pc = "d_write" =>
          Size(outfile.data) = SumSeq(SubSeq(DeclaredOriginals, 1, i))
    /\ pc = "d_close" \/ (pc = "done" /\ d_ret = 0) =>
          Size(outfile.data) = SumSeq(DeclaredOriginals)

\* decompress_file returned 0 after the tasks of chunks 1 and 3 failed
C19_Witness ==
    /\ pc = "done" /\ d_ret = 0 /\ Len(d_metas) = 3
    /\ DecompressFailed(1) /\ ~DecompressFailed(2) /\ DecompressFailed(3)
    /\ Size(outfile.data) = SumSeq(DeclaredOriginals)
    /\ Size(outfile.data) > 2 * MIN_CHUNK


\* The container's header stops before its last declared record
HeaderCut ==
    \/ Len(container.fields) < 3
    \/ Len(container.fields) < 3 + 2 * container.fields[3]

\* The compressed_size values the container's (complete) header declares
HeaderSizes == [k \in 1..container.fields[3] |-> container.fields[2 + 2 * k]]

\* The container is cut short: in its header, or its payload holds fewer
\* bytes than its header declares
Truncated ==
    /\ container.exists
    /\ \/ HeaderCut
       \/ Size(container.payload) < SumSeq(HeaderSizes)

\* C20: on a container cut short in its header, or holding fewer payload
\* bytes than its header declares, decompress_file gets no further than
\* reading the header and the blocks and returns 1 with an error on cerr;
\* it starts no worker and leaves the output file as it was.
C20_TruncatedContainer ==
    (InDecompress /\ Truncated) =>
        /\ pc \in {"d_header", "d_read", "done"}
        /\ d_workers = <<>> /\ decompressed = <<>>
        /\ outfile = StaleOutput
        /\ pc = "done" =>
              /\ d_ret = 1
              /\ IF HeaderCut \/ BadFormat
                 THEN <<"Invalid or corrupted header.">> \in cerr
                 ELSE \E j \in 0..(container.fields[3] - 1) :
                         <<"Failed reading compressed block", j>> \in cerr

\* a container of three blocks that lost its last payload byte: the read of
\* the third block failed after the first two were read
C20_Witness ==
    /\ pc = "done" /\ d_ret = 1 /\ c_ret = 0
    /\ Truncated /\ ~HeaderCut
    /\ container.fields[3] = 3
    /\ <<"Failed reading compressed block", 2>> \in cerr
    /\ in_pos.payload > 0
    /\ outfile = StaleOutput

====
